---- MODULE Spec2Model ----
(***************************************************************************)
(* Model of the two leaf components of the zamlet VPU test suite:          *)
(*   - the width-segmented arena allocator  vpu_alloc  (vpu_alloc.c)       *)
(*   - the bit-reversal index generator  compute_indices                   *)
(*     (compute_indices.c) with the reorder it feeds (bitreverse_main.c).  *)
(* Five specifications: Spec (vpu_alloc, one caller), SpecConc (vpu_alloc, *)
(* two threads), SpecIdx (bitreverse_main.c), SpecIdx64 (compute_indices   *)
(* as bitreverse_main64.c calls it), SpecIdxAny (compute_indices under any *)
(* n and vl).                                                              *)
(*                                                                         *)
(* size_t and uintptr_t are 64-bit.  TLC's integers are 32-bit, so a       *)
(* 64-bit word is a sequence of four 16-bit limbs, least significant       *)
(* first, and 64-bit arithmetic is limb arithmetic that drops the carry    *)
(* out of the top limb (arithmetic modulo 2^64).  Exact natural numbers    *)
(* used to state properties are the same limb sequences, six limbs long.   *)
(***************************************************************************)
EXTENDS Integers, Sequences, FiniteSets, TLC

VARIABLES
    brk,        \* vpu_alloc.c:17-21  the five pool cursors brk_1 .. brk_64
    exited,     \* TRUE once exit() was called
    exit_code,  \* the status passed to exit()
    allocs,     \* per width class, the <<ptr, size>> of each call that returned
    calls,      \* number of vpu_alloc calls made so far
    n,          \* compute_indices: total element count
    vl,         \* compute_indices: vector length of the call
    pc,         \* position of the bit-reversal harness
    loc,        \* compute_indices' scalar locals
    vreg,       \* the vector registers v0, v8, v9 (one value per lane)
    cycle,      \* loop counter of compute_indices
    read_idx,   \* caller's buffer, -1 where nothing was stored yet
    write_idx,  \* caller's buffer, -1 where nothing was stored yet
    src,        \* the harness' source array
    dst,        \* the harness' destination array
    rep,        \* reorder passes completed
    rstep,      \* vector steps done in the current reorder pass
    test_code,  \* argument of exit_test (-1: still running)
    harness,    \* which caller runs compute_indices
    reverse_bits, \* bitreverse_main64.c:9, the bit width override (0: none)
    stores,     \* the <<element offset, length>> of every vse32.v executed
    thr         \* per thread, the position and locals of its vpu_alloc call

allocVars == <<brk, exited, exit_code, allocs, calls>>
idxVars == <<n, vl, pc, loc, vreg, cycle, read_idx, write_idx, src, dst, rep,
             rstep, test_code, harness, reverse_bits, stores>>
vars == <<allocVars, idxVars, thr>>

-----------------------------------------------------------------------------
(* Limb arithmetic *)

LIMB == 2^16

Zero4 == <<0, 0, 0, 0>>

\* a natural number below 2^31 as a 64-bit word
W(k) == <<k % LIMB, (k \div LIMB) % LIMB, (k \div LIMB) \div LIMB, 0>>

\* a 32-bit hexadecimal literal 0xHHHHLLLL as a 64-bit word
Hex32(hi, lo) == <<lo, hi, 0, 0>>

RECURSIVE AddLimbs(_, _, _, _)
AddLimbs(a, b, i, c) ==
    IF i > Len(a) THEN <<>>
    ELSE LET s == a[i] + b[i] + c
         IN  <<s % LIMB>> \o AddLimbs(a, b, i + 1, s \div LIMB)

\* a + b modulo 2^(16 * Len(a)); on 4 limbs this is uintptr_t/size_t addition
Add(a, b) == AddLimbs(a, b, 1, 0)

RECURSIVE LtFrom(_, _, _)
LtFrom(a, b, i) ==
    IF i = 0 THEN FALSE
    ELSE IF a[i] # b[i] THEN a[i] < b[i]
    ELSE LtFrom(a, b, i - 1)

Lt(a, b) == LtFrom(a, b, Len(a))
Le(a, b) == ~Lt(b, a)

\* x & ~(m - 1) for a power of two m <= 2^16
ClearLow(x, m) == [x EXCEPT ![1] = x[1] - (x[1] % m)]

\* a 64-bit word as an exact natural number (six limbs)
Big(x) == x \o <<0, 0>>

-----------------------------------------------------------------------------
(* vpu_alloc.c *)

VPU_BASE_1  == Hex32(36864, 0)      \* 0x90000000
VPU_BASE_8  == Hex32(36868, 0)      \* 0x90040000
VPU_BASE_16 == Hex32(36872, 0)      \* 0x90080000
VPU_BASE_32 == Hex32(36876, 0)      \* 0x900C0000
VPU_BASE_64 == Hex32(36880, 0)      \* 0x90100000
VPU_POOL_SIZE == 256 * 1024

N_LANES == 4
WORD_WIDTH == 8
ALIGNMENT == N_LANES * WORD_WIDTH

Classes == {1, 8, 16, 32, 64}

Base(c) ==
    CASE c = 1  -> VPU_BASE_1
      [] c = 8  -> VPU_BASE_8
      [] c = 16 -> VPU_BASE_16
      [] c = 32 -> VPU_BASE_32
      [] c = 64 -> VPU_BASE_64

\* (x + ALIGNMENT - 1) & ~(ALIGNMENT - 1), in 64-bit arithmetic
AlignUp(x) == ClearLow(Add(x, W(ALIGNMENT - 1)), ALIGNMENT)

\* line 24: size = (size + ALIGNMENT - 1) & ~(ALIGNMENT - 1)
RoundSize(size) == AlignUp(size)

\* mutant: an unknown width falls through to the 64-bit pool
SelectPool_Fallthrough(element_width) ==
    IF element_width \in Classes THEN element_width ELSE 64

\* lines 29-37: the switch; 0 stands for the default branch
SelectPool(element_width) ==
    IF element_width \in Classes THEN element_width ELSE 0

\* mutant: case 32 binds the cursor of the 64-bit pool
CursorOf_CopyPaste(c) == IF c = 32 THEN 64 ELSE c

\* mutant: every case binds the cursor of the 1-bit pool
CursorOf_Shared(c) == 1

\* lines 30-34: brk = &brk_w, the cursor the switch binds for class w
CursorOf(c) == c

\* lines 30-34: limit = VPU_BASE_w + VPU_POOL_SIZE
Limit(c) == Add(Base(c), W(VPU_POOL_SIZE))

\* line 40: *brk = (*brk + ALIGNMENT - 1) & ~(ALIGNMENT - 1)
AlignBrk(b) == AlignUp(b)

\* line 43: *brk += size
Advance(b, size) == Add(b, size)

\* line 45: if (*brk > limit)
Exhausted(b, limit) == Lt(limit, b)

\* the sizes and element widths the model's callers pass
MaxCalls == 4
HugeSize == <<LIMB - ALIGNMENT, LIMB - 1, LIMB - 1, LIMB - 1>>   \* 2^64 - 32
Sizes == {W(0), W(100), W(VPU_POOL_SIZE), HugeSize}
Widths == Classes \cup {0, 2}

\* lines 23-50
vpu_alloc(size, element_width) ==
    /\ UNCHANGED <<idxVars, thr>>
    /\ ~exited
    /\ calls < MaxCalls
    /\ calls' = calls + 1
    /\ LET rsize == RoundSize(size)
           c     == SelectPool(element_width)
       IN  IF c = 0
           THEN \* default: exit(1)
                /\ exited' = TRUE
                /\ exit_code' = 1
                /\ UNCHANGED <<brk, allocs>>
           ELSE LET aligned == AlignBrk(brk[CursorOf(c)])
                    ptr     == aligned
                    newbrk  == Advance(aligned, rsize)
                IN  /\ brk' = [brk EXCEPT ![CursorOf(c)] = newbrk]
                    /\ IF Exhausted(newbrk, Limit(c))
                       THEN \* exit(2)
                            /\ exited' = TRUE
                            /\ exit_code' = 2
                            /\ UNCHANGED allocs
                       ELSE \* return ptr
                            /\ allocs' = [allocs EXCEPT ![c] = Append(@, <<ptr, size>>)]
                            /\ UNCHANGED <<exited, exit_code>>

-----------------------------------------------------------------------------
(* compute_indices.c, bitreverse_main.c *)

\* Lanes are 32-bit (e32) and the scalars 64-bit; every value the model
\* reaches is below 2^16, so no operation wraps.

RECURSIVE BitAnd(_, _)
BitAnd(a, b) ==
    IF a = 0 \/ b = 0 THEN 0
    ELSE (a % 2) * (b % 2) + 2 * BitAnd(a \div 2, b \div 2)

RECURSIVE BitOr(_, _)
BitOr(a, b) ==
    IF a = 0 THEN b
    ELSE IF b = 0 THEN a
    ELSE (IF a % 2 = 1 \/ b % 2 = 1 THEN 1 ELSE 0) + 2 * BitOr(a \div 2, b \div 2)

RECURSIVE ClogLoop(_, _)
ClogLoop(value, k) ==
    IF value > 0 THEN ClogLoop(value \div 2, k + 1) ELSE k

\* mutant: the decrement of line 9 is missing
clog2_NoDecrement(value) == IF value = 0 THEN 0 ELSE ClogLoop(value, 0)

\* compute_indices.c:7-16
clog2(value) == IF value = 0 THEN 0 ELSE ClogLoop(value - 1, 0)

RECURSIVE BitreverseLoop(_, _, _, _)
BitreverseLoop(value, n_bits, i, reversed) ==
    IF i < n_bits
    THEN BitreverseLoop(value, n_bits, i + 1,
             IF BitAnd(value, 2^i) # 0
             THEN BitOr(reversed, 2^(n_bits - 1 - i))
             ELSE reversed)
    ELSE reversed

\* bitreverse_main.c:24-32
bitreverse(value, n_bits) == BitreverseLoop(value, n_bits, 0, 0)

\* bitreverse_vec (assembly): dst[p] = src[p] with its low clog2_n bits
\* reversed and the bits above them passed through, p in [0, n)
bitreverse_vec(nn, srcv, clog2_n) ==
    [p \in 0..(nn - 1) |->
        (srcv[p] \div 2^clog2_n) * 2^clog2_n
            + bitreverse(srcv[p] % 2^clog2_n, clog2_n)]

RECURSIVE CountBitsLoop(_, _)
CountBitsLoop(val, bits) ==
    IF val > 1 THEN CountBitsLoop(val \div 2, bits + 1) ELSE bits

\* mutant: the loop of line 35 runs while val > 0
count_bits_OneMore(val) ==
    IF val > 0 THEN CountBitsLoop(val, 0) + 1 ELSE 0

\* bitreverse_main64.c:33-37
count_bits(val) == CountBitsLoop(val, 0)

\* bitreverse_main64.c:50: n_bits = reverse_bits ? reverse_bits : count_bits(n)
NBits(rb, nn) == IF rb # 0 THEN rb ELSE count_bits(nn)

\* the bit width handed to bitreverse_vec: clog2(n) in compute_indices.c
\* (lines 22, 110); the fifth argument in the build bitreverse_main64.c calls
BitWidthArg(h, nn, rb) == IF h = "main64" THEN NBits(rb, nn) ELSE clog2(nn)

\* mutant: the loop of line 51 / 87 runs one step too many
NCycles_OneMore(nn, v) == nn \div v + 1

\* compute_indices.c:38
NCycles(nn, v) == nn \div v

\* a read of a buffer element nothing was stored to yields any value; two
\* stand for them
Indeterminate == {0, 3}
Loaded(mem, g) == [i \in DOMAIN mem |-> IF mem[i] = -1 THEN g ELSE mem[i]]

\* mutant: the comparison of line 26 is strict
UseAlgoA_Strict(nn, vl_squared) == nn > vl_squared

\* compute_indices.c:26
UseAlgoA(nn, vl_squared) == nn >= vl_squared

\* mutant: the phase shift cycle / middle_size is missing
OffsetA_NoPhase(c, v, middle_size) == c * v

\* compute_indices.c:52
OffsetA(c, v, middle_size) == c * v + c \div middle_size

\* mutant: the final vadd.vv of the lane base v8 is missing
LanesA_NoBase(v0, v8, offset, stride_mask) ==
    [l \in DOMAIN v0 |-> BitAnd(v0[l] + offset, stride_mask)]

\* compute_indices.c:55-59: vadd.vx v1,v0,offset; vand.vx v1,v1,stride_mask;
\* vadd.vv v2,v8,v1
LanesA(v0, v8, offset, stride_mask) ==
    [l \in DOMAIN v0 |-> v8[l] + BitAnd(v0[l] + offset, stride_mask)]

\* mutant: the decrement of line 70 is missing
SectionMask_NoDecrement(log2_section_size) == 2^log2_section_size

\* compute_indices.c:70
SectionMask(log2_section_size) == 2^log2_section_size - 1

\* mutant: the vadd.vv of line 82 is missing, v9 = v2 * stride
SetupB_NoSection(v0, v, log2_section_size, section_mask, stride) ==
    LET v1 == [l \in DOMAIN v0 |-> v0[l] \div 2^log2_section_size]
        v2 == [l \in DOMAIN v0 |-> BitAnd(v0[l], section_mask)]
    IN  [v0 |-> v0,
         v8 |-> [l \in DOMAIN v0 |-> v1[l] * v],
         v9 |-> [l \in DOMAIN v0 |-> v2[l] * stride]]

\* compute_indices.c:78-82: vsrl.vx v1,v0,lss; vand.vx v2,v0,section_mask;
\* vmul.vx v8,v1,vl; vmul.vx v2,v2,stride; vadd.vv v9,v2,v1
SetupB(v0, v, log2_section_size, section_mask, stride) ==
    LET v1 == [l \in DOMAIN v0 |-> v0[l] \div 2^log2_section_size]
        v2 == [l \in DOMAIN v0 |-> BitAnd(v0[l], section_mask)]
    IN  [v0 |-> v0,
         v8 |-> [l \in DOMAIN v0 |-> v1[l] * v],
         v9 |-> [l \in DOMAIN v0 |-> v2[l] * stride + v1[l]]]

\* mutant: the loop counter is added off by one
LanesB_OffByOne(v8, v9, c, vl_mask) ==
    [l \in DOMAIN v8 |-> v8[l] + BitAnd(v9[l] + c + 1, vl_mask)]

\* compute_indices.c:90-93: vadd.vx v1,v9,cycle; vand.vx v1,v1,vl_mask;
\* vadd.vv v2,v8,v1
LanesB(v8, v9, c, vl_mask) ==
    [l \in DOMAIN v8 |-> v8[l] + BitAnd(v9[l] + c, vl_mask)]

\* vse32.v v2, (ptr): store the lanes at element offset at
Store(mem, at, v2) ==
    [i \in DOMAIN mem |->
        IF i - at \in DOMAIN v2 THEN v2[i - at] ELSE mem[i]]

\* bitreverse_main.c:49-72: src[i] = i * 7 + 3
SrcValue(i) == i * 7 + 3

\* bitreverse_main.c:105-128: vsll.vi by 2, element index to byte offset
ELEM_SHIFT == 2
ToByteOffsets(idx) == [i \in DOMAIN idx |-> idx[i] * 2^ELEM_SHIFT]

\* bitreverse_main.c:130
N_REPS == 4

\* bitreverse_reorder (assembly): one vector step of the gather/scatter,
\* lanes k*vl .. k*vl + vl - 1, byte offsets into src and dst
ReorderStep(d, s, roff, woff, k, v) ==
    LET lanes == (k * v)..(k * v + v - 1)
        hit(i) == {p \in lanes : woff[p] = i * 2^ELEM_SHIFT}
        top(S) == CHOOSE p \in S : \A q \in S : q <= p
    IN  [i \in DOMAIN d |->
            IF hit(i) = {} THEN d[i]
            ELSE s[roff[top(hit(i))] \div 2^ELEM_SHIFT]]

\* the (n, vl) the harness calls compute_indices with: powers of two, vl <= n
MaxLog2N == 8
Inputs == {<<2^a, 2^b>> : a \in 0..MaxLog2N, b \in 0..MaxLog2N} \cap
          {io \in (1..2^MaxLog2N) \X (1..2^MaxLog2N) : io[2] <= io[1]}

\* bitreverse_main64.c:46-49: it exits unless n = 8 * vl
Inputs64 == {io \in Inputs : io[1] = 8 * io[2]}

\* any caller: n and vl need not be powers of two, nor vl <= n
MaxAnyN == 8
InputsAny == (0..MaxAnyN) \X (1..MaxAnyN)

NoLoc == [clog2_n |-> 0, vl_squared |-> 0, use_algo_a |-> FALSE, stride |-> 0,
          n_cycles |-> 0, middle_size |-> 0, stride_mask |-> 0,
          log2_section_size |-> 0, section_mask |-> 0, vl_mask |-> 0,
          bit_width |-> 0, read_ptr |-> 0]

\* no vpu_alloc call is in progress in a thread
NoThreads == <<>>

\* vpu_alloc.c:17-21: the cursors start at the pool bases; the bit-reversal
\* harness is not running
Init ==
    /\ brk = [c \in Classes |-> Base(c)]
    /\ exited = FALSE
    /\ exit_code = 0
    /\ allocs = [c \in Classes |-> <<>>]
    /\ calls = 0
    /\ n = 1 /\ vl = 1 /\ pc = "idle" /\ loc = NoLoc
    /\ vreg = [v0 |-> <<>>, v8 |-> <<>>, v9 |-> <<>>]
    /\ cycle = 0 /\ read_idx = <<>> /\ write_idx = <<>>
    /\ src = <<>> /\ dst = <<>> /\ rep = 0 /\ rstep = 0 /\ test_code = -1
    /\ harness = "none" /\ reverse_bits = 0 /\ stores = <<>>
    /\ thr = NoThreads

\* bitreverse_main.c:38-92: main up to the call of compute_indices; no
\* vpu_alloc call is made
InitIdx ==
    /\ brk = [c \in Classes |-> Base(c)]
    /\ exited = FALSE
    /\ exit_code = 0
    /\ allocs = [c \in Classes |-> <<>>]
    /\ calls = 0
    /\ \E io \in Inputs : n = io[1] /\ vl = io[2]
    /\ pc = "call"
    /\ loc = NoLoc
    /\ vreg = [v0 |-> <<>>, v8 |-> <<>>, v9 |-> <<>>]
    /\ cycle = 0
    /\ read_idx = [i \in 0..(n - 1) |-> -1]
    /\ write_idx = [i \in 0..(n - 1) |-> -1]
    /\ src = [i \in 0..(n - 1) |-> SrcValue(i)]
    /\ dst = [i \in 0..(n - 1) |-> 0]
    /\ rep = 0
    /\ rstep = 0
    /\ test_code = -1
    /\ harness = "main"
    /\ reverse_bits = 0
    /\ stores = <<>>
    /\ thr = NoThreads

\* bitreverse_main64.c:45-103: main up to the call of compute_indices; n and
\* reverse_bits are set from outside
InitIdx64 ==
    /\ brk = [c \in Classes |-> Base(c)]
    /\ exited = FALSE
    /\ exit_code = 0
    /\ allocs = [c \in Classes |-> <<>>]
    /\ calls = 0
    /\ \E io \in Inputs64 : n = io[1] /\ vl = io[2]
    /\ reverse_bits \in {b \in 0..MaxLog2N : 2^b <= n}
    /\ pc = "call"
    /\ loc = NoLoc
    /\ vreg = [v0 |-> <<>>, v8 |-> <<>>, v9 |-> <<>>]
    /\ cycle = 0
    /\ read_idx = [i \in 0..(n - 1) |-> -1]
    /\ write_idx = [i \in 0..(n - 1) |-> -1]
    /\ src = [i \in 0..(n - 1) |-> SrcValue(i)]
    /\ dst = [i \in 0..(n - 1) |-> 0]
    /\ rep = 0
    /\ rstep = 0
    /\ test_code = -1
    /\ harness = "main64"
    /\ stores = <<>>
    /\ thr = NoThreads

\* a caller that passes any n and vl >= 1 with buffers of n elements
InitIdxAny ==
    /\ brk = [c \in Classes |-> Base(c)]
    /\ exited = FALSE
    /\ exit_code = 0
    /\ allocs = [c \in Classes |-> <<>>]
    /\ calls = 0
    /\ \E io \in InputsAny : n = io[1] /\ vl = io[2]
    /\ reverse_bits = 0
    /\ pc = "call"
    /\ loc = NoLoc
    /\ vreg = [v0 |-> <<>>, v8 |-> <<>>, v9 |-> <<>>]
    /\ cycle = 0
    /\ read_idx = [i \in 0..(n - 1) |-> -1]
    /\ write_idx = [i \in 0..(n - 1) |-> -1]
    /\ src = [i \in 0..(n - 1) |-> SrcValue(i)]
    /\ dst = [i \in 0..(n - 1) |-> 0]
    /\ rep = 0
    /\ rstep = 0
    /\ test_code = -1
    /\ harness = "any"
    /\ stores = <<>>
    /\ thr = NoThreads

\* where the caller continues after compute_indices returns
ReturnPc(h) ==
    CASE h = "main"   -> "returned"
      [] h = "main64" -> "returned64"
      [] OTHER        -> "returned_any"

\* compute_indices.c:18-49 and 66-85: the prologue up to the loop
CI_Enter ==
    /\ UNCHANGED <<allocVars, thr>>
    /\ pc = "call"
    /\ LET clog2_n    == clog2(n)
           vl_squared == vl * vl
           use_a      == UseAlgoA(n, vl_squared)
           stride     == n \div vl
           v0         == [l \in 0..(vl - 1) |-> l]
           lss        == 2 * clog2(vl) - clog2_n
           base       == [NoLoc EXCEPT !.clog2_n = clog2_n,
                                       !.vl_squared = vl_squared,
                                       !.use_algo_a = use_a,
                                       !.stride = stride,
                                       !.n_cycles = NCycles(n, vl),
                                       !.bit_width =
                                           BitWidthArg(harness, n, reverse_bits)]
       IN  IF use_a
           THEN /\ loc' = [base EXCEPT !.middle_size = stride \div vl,
                                       !.stride_mask = stride - 1]
                /\ vreg' = [v0 |-> v0,
                            v8 |-> [l \in 0..(vl - 1) |-> v0[l] * stride],
                            v9 |-> <<>>]
                /\ pc' = "algoA"
           ELSE /\ loc' = [base EXCEPT !.log2_section_size = lss,
                                       !.section_mask = SectionMask(lss),
                                       !.vl_mask = vl - 1]
                /\ vreg' = SetupB(v0, vl, lss, SectionMask(lss), stride)
                /\ pc' = "algoB"
    /\ cycle' = 0
    /\ UNCHANGED <<n, vl, read_idx, write_idx, src, dst, rep, rstep, test_code,
                   harness, reverse_bits, stores>>

\* compute_indices.c:51-65: one iteration of Algorithm A's loop
CI_CycleA ==
    /\ UNCHANGED <<allocVars, thr>>
    /\ pc = "algoA"
    /\ cycle < loc.n_cycles
    /\ read_idx' = Store(read_idx, loc.read_ptr,
                     LanesA(vreg.v0, vreg.v8,
                            OffsetA(cycle, vl, loc.middle_size), loc.stride_mask))
    /\ stores' = Append(stores, <<loc.read_ptr, vl>>)
    /\ loc' = [loc EXCEPT !.read_ptr = @ + vl]
    /\ cycle' = cycle + 1
    /\ UNCHANGED <<n, vl, pc, vreg, write_idx, src, dst, rep, rstep, test_code,
                   harness, reverse_bits>>

\* compute_indices.c:87-100: one iteration of Algorithm B's loop
CI_CycleB ==
    /\ UNCHANGED <<allocVars, thr>>
    /\ pc = "algoB"
    /\ cycle < loc.n_cycles
    /\ read_idx' = Store(read_idx, loc.read_ptr,
                     LanesB(vreg.v8, vreg.v9, cycle, loc.vl_mask))
    /\ stores' = Append(stores, <<loc.read_ptr, vl>>)
    /\ loc' = [loc EXCEPT !.read_ptr = @ + vl]
    /\ cycle' = cycle + 1
    /\ UNCHANGED <<n, vl, pc, vreg, write_idx, src, dst, rep, rstep, test_code,
                   harness, reverse_bits>>

\* compute_indices.c:106-116: bitreverse_vec and return
CI_Bitreverse ==
    /\ UNCHANGED <<allocVars, thr>>
    /\ pc \in {"algoA", "algoB"}
    /\ cycle >= loc.n_cycles
    /\ \E g \in Indeterminate :
           write_idx' = bitreverse_vec(n, Loaded(read_idx, g), loc.bit_width)
    /\ pc' = ReturnPc(harness)
    /\ UNCHANGED <<n, vl, loc, vreg, cycle, read_idx, src, dst, rep, rstep, test_code,
                   harness, reverse_bits, stores>>

\* bitreverse_main.c:105-128
Main_ToByteOffsets ==
    /\ UNCHANGED <<allocVars, thr>>
    /\ pc = "returned"
    /\ read_idx' = ToByteOffsets(read_idx)
    /\ write_idx' = ToByteOffsets(write_idx)
    /\ pc' = "reorder"
    /\ UNCHANGED <<n, vl, loc, vreg, cycle, src, dst, rep, rstep, test_code,
                   harness, reverse_bits, stores>>

\* bitreverse_main.c:130-132: one vector step of one bitreverse_reorder pass
Main_ReorderStep ==
    /\ UNCHANGED <<allocVars, thr>>
    /\ pc = "reorder"
    /\ rep < N_REPS
    /\ dst' = ReorderStep(dst, src, read_idx, write_idx, rstep, vl)
    /\ IF rstep + 1 = n \div vl
       THEN rep' = rep + 1 /\ rstep' = 0
       ELSE rep' = rep /\ rstep' = rstep + 1
    /\ UNCHANGED <<n, vl, pc, loc, vreg, cycle, read_idx, write_idx, src, test_code,
                   harness, reverse_bits, stores>>

\* bitreverse_main.c:134-144: the first mismatch's code, or 0
VerifyCode(d, nn, n_bits) ==
    LET bad == {i \in 0..(nn - 1) : d[i] # SrcValue(bitreverse(i, n_bits))}
    IN  IF bad = {} THEN 0
        ELSE LET i == CHOOSE j \in bad : \A k \in bad : j <= k
             IN  (d[i] % 256) * 2^16 + i * 2^8 + 128

\* bitreverse_main.c:134-144
Main_Verify ==
    /\ UNCHANGED <<allocVars, thr>>
    /\ pc = "reorder"
    /\ rep = N_REPS
    /\ test_code' = VerifyCode(dst, n, clog2(n))
    /\ pc' = "done"
    /\ UNCHANGED <<n, vl, loc, vreg, cycle, read_idx, write_idx, src, dst, rep, rstep,
                   harness, reverse_bits, stores>>

-----------------------------------------------------------------------------
(* vpu_alloc.c called from two threads.  The file holds no lock and no      *)
(* atomic: each read and each write of *brk is a step of its own, and a     *)
(* value read before may be kept in a register instead of being read again. *)

Threads == {1, 2}

\* calls each thread makes at most
ConcCalls == 1

\* the sizes and element widths the threads pass
ConcSizes == {W(100), W(VPU_POOL_SIZE)}
ConcWidths == {1, 8, 2}

IdleThread == [pc |-> "idle", size |-> Zero4, c |-> 0, tmp |-> Zero4,
               ptr |-> Zero4, used |-> {}, ncalls |-> 0]

\* vpu_alloc.c:17-21 with two threads that have not called yet
InitConc ==
    /\ brk = [c \in Classes |-> Base(c)]
    /\ exited = FALSE
    /\ exit_code = 0
    /\ allocs = [c \in Classes |-> <<>>]
    /\ calls = 0
    /\ n = 1 /\ vl = 1 /\ pc = "idle" /\ loc = NoLoc
    /\ vreg = [v0 |-> <<>>, v8 |-> <<>>, v9 |-> <<>>]
    /\ cycle = 0 /\ read_idx = <<>> /\ write_idx = <<>>
    /\ src = <<>> /\ dst = <<>> /\ rep = 0 /\ rstep = 0 /\ test_code = -1
    /\ harness = "none" /\ reverse_bits = 0 /\ stores = <<>>
    /\ thr = [t \in Threads |-> IdleThread]

\* lines 23-37: entry, the rounding of size and the switch
T_Call(t) ==
    /\ ~exited
    /\ thr[t].pc = "idle"
    /\ thr[t].ncalls < ConcCalls
    /\ \E size \in ConcSizes, element_width \in ConcWidths :
           LET c == SelectPool(element_width)
           IN  IF c = 0
               THEN \* default: exit(1)
                    /\ exited' = TRUE
                    /\ exit_code' = 1
                    /\ thr' = [thr EXCEPT ![t].pc = "exit",
                                          ![t].ncalls = @ + 1]
               ELSE /\ thr' = [thr EXCEPT ![t].pc = "align_load",
                                          ![t].size = RoundSize(size),
                                          ![t].c = c,
                                          ![t].used = @ \cup {c},
                                          ![t].ncalls = @ + 1]
                    /\ UNCHANGED <<exited, exit_code>>
    /\ calls' = calls + 1
    /\ UNCHANGED <<brk, allocs, idxVars>>

\* line 40, the read of *brk
T_AlignLoad(t) ==
    /\ ~exited
    /\ thr[t].pc = "align_load"
    /\ thr' = [thr EXCEPT ![t].pc = "align_store",
                          ![t].tmp = brk[CursorOf(thr[t].c)]]
    /\ UNCHANGED <<allocVars, idxVars>>

\* line 40, the write of *brk
T_AlignStore(t) ==
    /\ ~exited
    /\ thr[t].pc = "align_store"
    /\ brk' = [brk EXCEPT ![CursorOf(thr[t].c)] = AlignBrk(thr[t].tmp)]
    /\ thr' = [thr EXCEPT ![t].pc = "ptr_load",
                          ![t].tmp = AlignBrk(thr[t].tmp)]
    /\ UNCHANGED <<exited, exit_code, allocs, calls, idxVars>>

\* line 42: ptr = (void*)*brk, read again or taken from the register
T_PtrLoad(t) ==
    /\ ~exited
    /\ thr[t].pc = "ptr_load"
    /\ \E v \in {brk[CursorOf(thr[t].c)], thr[t].tmp} :
           thr' = [thr EXCEPT ![t].pc = "adv_load", ![t].ptr = v]
    /\ UNCHANGED <<allocVars, idxVars>>

\* line 43, the read of *brk, read again or taken from the register
T_AdvLoad(t) ==
    /\ ~exited
    /\ thr[t].pc = "adv_load"
    /\ \E v \in {brk[CursorOf(thr[t].c)], thr[t].ptr} :
           thr' = [thr EXCEPT ![t].pc = "adv_store", ![t].tmp = v]
    /\ UNCHANGED <<allocVars, idxVars>>

\* line 43, the write of *brk
T_AdvStore(t) ==
    /\ ~exited
    /\ thr[t].pc = "adv_store"
    /\ brk' = [brk EXCEPT ![CursorOf(thr[t].c)] = Advance(thr[t].tmp, thr[t].size)]
    /\ thr' = [thr EXCEPT ![t].pc = "check",
                          ![t].tmp = Advance(thr[t].tmp, thr[t].size)]
    /\ UNCHANGED <<exited, exit_code, allocs, calls, idxVars>>

\* lines 45-49: the test of *brk (read again or taken from the register),
\* exit(2) or return ptr
T_Check(t) ==
    /\ ~exited
    /\ thr[t].pc = "check"
    /\ \E v \in {brk[CursorOf(thr[t].c)], thr[t].tmp} :
           IF Exhausted(v, Limit(thr[t].c))
           THEN /\ exited' = TRUE
                /\ exit_code' = 2
                /\ thr' = [thr EXCEPT ![t].pc = "exit"]
                /\ UNCHANGED allocs
           ELSE /\ allocs' = [allocs EXCEPT ![thr[t].c] =
                                  Append(@, <<thr[t].ptr, thr[t].size>>)]
                /\ thr' = [thr EXCEPT ![t].pc = "idle"]
                /\ UNCHANGED <<exited, exit_code>>
    /\ UNCHANGED <<brk, calls, idxVars>>

-----------------------------------------------------------------------------
(* Specifications *)

AllocNext ==
    \E size \in Sizes, element_width \in Widths : vpu_alloc(size, element_width)

IdxNext ==
    \/ CI_Enter
    \/ CI_CycleA
    \/ CI_CycleB
    \/ CI_Bitreverse
    \/ Main_ToByteOffsets
    \/ Main_ReorderStep
    \/ Main_Verify

ConcNext ==
    \E t \in Threads :
        \/ T_Call(t)
        \/ T_AlignLoad(t)
        \/ T_AlignStore(t)
        \/ T_PtrLoad(t)
        \/ T_AdvLoad(t)
        \/ T_AdvStore(t)
        \/ T_Check(t)

\* the allocator called from two threads
SpecConc == InitConc /\ [][ConcNext]_vars

\* the allocator under any sequence of calls
Spec == Init /\ [][AllocNext]_vars

\* the bit-reversal harness
SpecIdx == InitIdx /\ [][IdxNext]_vars

\* compute_indices as bitreverse_main64.c calls it
CallNext ==
    \/ CI_Enter
    \/ CI_CycleA
    \/ CI_CycleB
    \/ CI_Bitreverse

SpecIdx64 == InitIdx64 /\ [][CallNext]_vars

\* compute_indices under any caller
SpecIdxAny == InitIdxAny /\ [][CallNext]_vars

-----------------------------------------------------------------------------
(* Properties of vpu_alloc *)

\* the least multiple of 32 that is >= s, as an exact natural number
RoundUp32(s) == ClearLow(Add(Big(s), Big(W(31))), 32)

\* the region [p, p + roundup32(size)) of a returned call, exact bounds
RegionStart(a) == Big(a[1])
RegionEnd(a) == Add(Big(a[1]), RoundUp32(a[2]))

Overlap(a, b) ==
    /\ Lt(RegionStart(a), RegionEnd(a))
    /\ Lt(RegionStart(b), RegionEnd(b))
    /\ Lt(RegionStart(a), RegionEnd(b))
    /\ Lt(RegionStart(b), RegionEnd(a))

\* C1: the regions returned for one width class are pairwise non-overlapping
\* and every returned start address is a multiple of 32.
C1_NonOverlapAligned ==
    \A c \in Classes :
        /\ \A i, j \in 1..Len(allocs[c]) :
               i < j => ~Overlap(allocs[c][i], allocs[c][j])
        /\ \A i \in 1..Len(allocs[c]) : allocs[c][i][1][1] % 32 = 0

\* every returned region lies inside [base, base + 256 KiB] of its pool
InsidePool ==
    \A c \in Classes : \A i \in 1..Len(allocs[c]) :
        /\ Le(Big(Base(c)), RegionStart(allocs[c][i]))
        /\ Le(RegionEnd(allocs[c][i]), Big(Limit(c)))

\* C2: a call on a valid class whose aligned cursor plus rounded size exceeds
\* base + 256 KiB exits with status 2 and returns no pointer (so the region
\* of every call that returned ends at or below the limit), and every
\* returned region lies inside [base, base + 256 KiB] of its pool.
C2_ExhaustionExits ==
    /\ InsidePool
    /\ (exited /\ \E c \in Classes : Lt(Limit(c), brk[c])) => exit_code = 2

\* C3: a call with an element width outside {1, 8, 16, 32, 64} exits with
\* status 1 whatever the size, returns no pointer and leaves the five
\* cursors unchanged.
C3_InvalidWidthExits ==
    [][\A size \in Sizes, w \in Widths \ Classes :
           vpu_alloc(size, w) =>
               (exited' /\ exit_code' = 1 /\ allocs' = allocs /\ brk' = brk)]_vars

C3_Witness ==
    /\ exited /\ exit_code = 1
    /\ brk[32] # Base(32) /\ Len(allocs[32]) = 2 /\ brk[8] = Base(8)

RECURSIVE SumRounded(_, _)
SumRounded(as, k) ==
    IF k = 0 THEN Big(Zero4)
    ELSE Add(SumRounded(as, k - 1), RoundUp32(as[k][2]))

\* C10: the k-th returned call on a class returns base(class) plus the sum of
\* roundup32(size_j) over the earlier returned calls of that class; four
\* 100-byte allocations from the 32-bit pool return 0x900C0000 + 128 * k.
C10_AddressIsBasePlusSum ==
    /\ \A c \in Classes : \A k \in 1..Len(allocs[c]) :
           Big(allocs[c][k][1]) = Add(Big(Base(c)), SumRounded(allocs[c], k - 1))
    /\ (\A k \in 1..Len(allocs[32]) : allocs[32][k][2] = W(100)) =>
           \A k \in 1..Len(allocs[32]) :
               allocs[32][k][1] = Add(VPU_BASE_32, W(128 * (k - 1)))

-----------------------------------------------------------------------------
(* Properties of compute_indices and the reorder *)

\* the exponent of a power of two (not computed by the program)
ExactLog2(x) == CHOOSE k \in 0..(MaxLog2N + 1) : 2^k = x

\* bit reversal of x over w bits, as a sum of place values
RECURSIVE RevBits(_, _)
RevBits(x, w) ==
    IF w = 0 THEN 0 ELSE (x % 2) * 2^(w - 1) + RevBits(x \div 2, w - 1)

\* compute_indices has returned and main has not yet rescaled the buffers
Returned == pc = "returned"

\* f, a function on 0..n-1, takes every value of 0..n-1 exactly once
Bijection(f) ==
    /\ \A i \in 0..(n - 1) : Cardinality({p \in DOMAIN f : f[p] = i}) = 1
    /\ \A p \in DOMAIN f : f[p] \in 0..(n - 1)

\* C4: when compute_indices returns, read_idx holds every index of [0, n)
\* exactly once, and so does write_idx, in both algorithms.
C4_Bijection == Returned => Bijection(read_idx) /\ Bijection(write_idx)

\* Algorithm B at n = vl^2 / 2, all n / vl = 4 steps stored
C4_Witness ==
    /\ Returned /\ ~loc.use_algo_a /\ n = 32 /\ vl = 8 /\ cycle = 4
    /\ read_idx[0] = 0 /\ read_idx[1] = 4

\* C5: when compute_indices returns, write_idx[p] is the bit reversal of
\* read_idx[p] over log2(n) bits, for every position p.
C5_WriteIsReversedRead ==
    Returned => \A p \in 0..(n - 1) :
                    write_idx[p] = RevBits(read_idx[p], ExactLog2(n))

C5_Witness ==
    /\ Returned /\ n = 32 /\ vl = 4
    /\ \E p \in 0..(n - 1) : write_idx[p] # read_idx[p]

\* the reorder has completed at least one full pass and is between passes
PassDone == pc \in {"reorder", "done"} /\ rep >= 1 /\ rstep = 0

\* C6: after every complete pass of the reorder (the first and each
\* repetition), dst[i] = src[bitreverse(i, log2 n)] for every i in [0, n).
C6_ReorderIsBitReversal ==
    PassDone => \A i \in 0..(n - 1) : dst[i] = src[RevBits(i, ExactLog2(n))]

C6_Witness ==
    /\ pc = "done" /\ rep = N_REPS /\ n = 64 /\ vl = 4
    /\ dst[1] = SrcValue(32)

\* C7: Algorithm A is selected exactly when n >= vl^2, Algorithm B exactly
\* when n < vl^2.
C7_AlgorithmSelection ==
    pc \in {"algoA", "algoB"} =>
        /\ (pc = "algoA") = (ExactLog2(n) >= 2 * ExactLog2(vl))
        /\ loc.use_algo_a = (pc = "algoA")

C7_Witness == pc = "algoA" /\ n = 16 /\ vl = 4 /\ cycle = 2

\* C8 as stated: for n = 64, vl = 8 the generator is in the Algorithm B
\* regime, runs 8 steps of width 8 and returns a bit-reversing bijection.
C8_Original ==
    (Returned /\ n = 64 /\ vl = 8) =>
        /\ ~loc.use_algo_a
        /\ cycle = 8
        /\ Bijection(read_idx) /\ Bijection(write_idx)
        /\ \A p \in 0..63 : write_idx[p] = RevBits(read_idx[p], 6)

\* C8 amended: for n = 64, vl = 8 the generator is in the Algorithm A
\* regime, runs 8 steps of width 8 and returns a bit-reversing bijection.
C8_Amended ==
    (Returned /\ n = 64 /\ vl = 8) =>
        /\ loc.use_algo_a
        /\ cycle = 8
        /\ Bijection(read_idx) /\ Bijection(write_idx)
        /\ \A p \in 0..63 : write_idx[p] = RevBits(read_idx[p], 6)

C8_Witness == Returned /\ n = 64 /\ vl = 8 /\ cycle = 8 /\ read_idx[8] = 1

\* C9: with n = vl, read_idx is the identity and write_idx[p] is the bit
\* reversal of p; for n = vl = 8, write_idx = [0,4,2,6,1,5,3,7].
C9_SingleStep ==
    (Returned /\ n = vl) =>
        /\ \A p \in 0..(n - 1) : read_idx[p] = p
        /\ \A p \in 0..(n - 1) : write_idx[p] = RevBits(p, ExactLog2(n))
        /\ n = 8 => /\ read_idx = [p \in 0..7 |-> p]
                    /\ write_idx = [p \in 0..7 |-> <<0, 4, 2, 6, 1, 5, 3, 7>>[p + 1]]

C9_Witness == Returned /\ n = 8 /\ vl = 8 /\ cycle = 1 /\ write_idx[1] = 4

-----------------------------------------------------------------------------
(* Further properties of vpu_alloc *)

\* C11: at all times, the state in which a call ends the process included,
\* every pool's cursor lies in [base, base + capacity] and is a multiple of
\* 32 (so the re-alignment of line 40 leaves it as it is).
C11_CursorInBounds ==
    \A c \in Classes :
        /\ Le(Base(c), brk[c])
        /\ Le(brk[c], Limit(c))
        /\ brk[c][1] % ALIGNMENT = 0
        /\ AlignBrk(brk[c]) = brk[c]

\* C12: whatever size_t value a call passes, no pool's cursor ever decreases.
C12_CursorMonotone ==
    [][\A c \in Classes : Le(brk[c], brk'[c])]_vars

\* the cursor of class c after the first k returned calls of that class alone
RECURSIVE CursorAfter(_, _, _)
CursorAfter(c, as, k) ==
    IF k = 0 THEN Base(c)
    ELSE Advance(AlignBrk(CursorAfter(c, as, k - 1)), RoundSize(as[k][2]))

\* a step that touches class c leaves every other class as it was
OnlyOwnCursor ==
    \A c \in Classes :
        (brk'[c] # brk[c] \/ allocs'[c] # allocs[c]) =>
            \A d \in Classes \ {c} : brk'[d] = brk[d] /\ allocs'[d] = allocs[d]

\* every returned address is determined by the earlier calls of its class
OwnHistory ==
    \A c \in Classes :
        /\ \A k \in 1..Len(allocs[c]) :
               allocs[c][k][1] = AlignBrk(CursorAfter(c, allocs[c], k - 1))
        /\ ~exited => brk[c] = CursorAfter(c, allocs[c], Len(allocs[c]))

\* C13: a call with class w changes the cursor of pool w and no other, and
\* the address it returns is a function of the earlier calls with class w
\* alone.
C13_PoolsIndependent ==
    []OwnHistory /\ [][OnlyOwnCursor]_vars

C13_Witness ==
    /\ Len(allocs[32]) = 2 /\ Len(allocs[64]) = 1 /\ Len(allocs[1]) = 1
    /\ allocs[32][2][1] = Add(VPU_BASE_32, W(128))
    /\ allocs[64][1][1] = VPU_BASE_64

\* C17: every returned pointer p, a size of 0 and a full pool included, has
\* base <= p < base + capacity for its own class, so it is never an address
\* of another class's pool.
C17_PointerInsidePool ==
    \A c \in Classes : \A k \in 1..Len(allocs[c]) :
        /\ Le(Base(c), allocs[c][k][1])
        /\ Lt(allocs[c][k][1], Limit(c))

-----------------------------------------------------------------------------
(* Further properties of compute_indices *)

\* the positions the k-th vector store writes
Written(k) == stores[k][1]..(stores[k][1] + stores[k][2] - 1)

\* C16: for a power-of-two n and vl <= n, compute_indices ends after exactly
\* n / vl vector stores, store c (from 0) writes read_idx[c*vl .. c*vl+vl-1]
\* and nothing else, so that every position of [0, n) is written exactly
\* once and none outside [0, n).
C16_StoreSteps ==
    /\ \A k \in 1..Len(stores) : stores[k] = <<(k - 1) * vl, vl>>
    /\ Len(stores) * vl <= n
    /\ pc \in {"algoA", "algoB"} =>
           /\ Len(stores) = cycle
           /\ \A p \in 0..(n - 1) : (read_idx[p] # -1) <=> (p < cycle * vl)
    /\ Returned =>
           /\ Len(stores) * vl = n
           /\ \A p \in 0..(n - 1) :
                  Cardinality({k \in 1..Len(stores) : p \in Written(k)}) = 1
           /\ \A k \in 1..Len(stores) : Written(k) \subseteq 0..(n - 1)

C16_Witness ==
    /\ Returned /\ n = 32 /\ vl = 4
    /\ Len(stores) = 8 /\ stores[8] = <<28, 4>>

\* the values of f at the positions of vector step c are pairwise distinct
\* modulo vl
DistinctModVl(f, c) ==
    Cardinality({f[c * vl + j] % vl : j \in 0..(vl - 1)}) = vl

\* C19: in both algorithms, for every step c the vl read indices of the step
\* are pairwise distinct modulo vl, and so are the vl write indices of the
\* step, the log2(n)-bit reversals of those read indices.
C19_DistinctModVl ==
    Returned =>
        \A c \in 0..(n \div vl - 1) :
            /\ DistinctModVl(read_idx, c)
            /\ DistinctModVl(write_idx, c)
            /\ DistinctModVl([p \in 0..(n - 1) |->
                                 RevBits(read_idx[p], ExactLog2(n))], c)

C19_Witness ==
    /\ Returned /\ n = 32 /\ vl = 8 /\ ~loc.use_algo_a
    /\ {read_idx[8 + j] % vl : j \in 0..7} = 0..7
    /\ {write_idx[8 + j] % vl : j \in 0..7} = 0..7
    /\ read_idx[8] # 8

\* compute_indices has returned to main of bitreverse_main64.c
Returned64 == pc = "returned64"

\* x with its low b bits reversed and the bits above them kept
RevLow(x, b) == (x \div 2^b) * 2^b + RevBits(x % 2^b, b)

IsPowerOfTwo(x) == \E k \in 0..MaxAnyN : 2^k = x

\* the inputs the preconditions of compute_indices exclude
InvalidInput == ~IsPowerOfTwo(n) \/ ~IsPowerOfTwo(vl) \/ vl > n

\* C15: called with an n or a vl that is not a power of two, or with
\* vl > n, compute_indices ends the process at once with a fixed status
\* code: it enters neither algorithm, executes no vector store, returns to
\* no caller and leaves read_idx and write_idx without any index value.
C15_InvalidInputsFailFast ==
    InvalidInput =>
        /\ pc \notin {"algoA", "algoB", "returned_any"}
        /\ stores = <<>>
        /\ \A p \in 0..(n - 1) : read_idx[p] = -1 /\ write_idx[p] = -1

-----------------------------------------------------------------------------
(* Properties of vpu_alloc under two threads *)

\* the low 64 bits of an exact natural number
Mod64(x) == SubSeq(x, 1, 4)

\* no thread is inside a call on class c
Quiet(c) == \A t \in Threads : thr[t].pc = "idle" \/ thr[t].c # c

\* C18: vpu_alloc has no protection against concurrent calls: two calls on
\* the same class that interleave can return the same start address, while
\* calls on different classes give, in every interleaving, the results they
\* give when run one after the other (the k-th returned address of a class
\* is its base plus the rounded sizes returned before it, and the cursor
\* ends at the base plus all of them).
C18_DisjointClassesSequential ==
    (thr[1].used \cap thr[2].used = {}) =>
        \A c \in Classes :
            /\ \A k \in 1..Len(allocs[c]) :
                   allocs[c][k][1] =
                       Mod64(Add(Big(Base(c)), SumRounded(allocs[c], k - 1)))
            /\ (Quiet(c) /\ ~exited) =>
                   brk[c] = Mod64(Add(Big(Base(c)),
                                      SumRounded(allocs[c], Len(allocs[c]))))

\* both threads called once on the 1-bit pool with 100 bytes, both
\* returned, and both got the pool's base
C18_Witness ==
    /\ \A t \in Threads : thr[t].pc = "idle" /\ thr[t].ncalls = 1 /\ thr[t].c = 1
    /\ ~exited
    /\ Len(allocs[1]) = 2
    /\ allocs[1][1] = <<VPU_BASE_1, W(128)>>
    /\ allocs[1][2] = <<VPU_BASE_1, W(128)>>

====
